---- MODULE Spec2Model ----
(***************************************************************************)
(* Session / identity orchestration of the gym-league application:        *)
(* the AuthProvider component of src/src/contexts/AuthContext.tsx, its    *)
(* startup effect, login, signUp, logout, the change-notification handler *)
(* and the profile loader, together with the identity provider, the       *)
(* profile store and the browser storage slot they talk to.               *)
(***************************************************************************)
EXTENDS Integers, Sequences, FiniteSets, TLC

(***************************************************************************)
(* Bounds of the model.                                                    *)
(***************************************************************************)
MaxCalls == 2      \* things that happen to the component in a run: login, signUp
                   \* and logout calls, its unmounting, and session changes that
                   \* originate outside this tab
MaxClock == 1      \* largest reading of the millisecond clock

(***************************************************************************)
(* JavaScript values.  A position that holds a string or null is a TLA+   *)
(* string, null being NULL; a position that holds an object or null is a  *)
(* record, null being JsNull.                                              *)
(***************************************************************************)
NULL == "<null>"
JsNull == [jsnull |-> TRUE]
JsNumber == [jsnumber |-> 42]
JsOther == [note |-> "x"]

DemoPassword == "demo123"

IsoString(t) == "T" \o ToString(t)

\* Module load time: the catalog's timestamps are taken once, at import.
LoadTime == 0

Profile(id, email, first, last, role, gym, t) ==
    [id |-> id, email |-> email, first_name |-> first, last_name |-> last,
     role |-> role, gym_id |-> gym, phone |-> NULL, date_of_birth |-> NULL,
     is_active |-> TRUE, created_at |-> IsoString(t), updated_at |-> IsoString(t)]

demoUsers ==
    [e \in {"admin@demo.com", "coach@demo.com", "gymnast@demo.com"} |->
        CASE e = "admin@demo.com" ->
                Profile("demo-admin-id", e, "League", "Administrator", "admin", NULL, LoadTime)
          [] e = "coach@demo.com" ->
                Profile("demo-coach-id", e, "Sarah", "Johnson", "coach", "demo-gym-id", LoadTime)
          [] e = "gymnast@demo.com" ->
                Profile("demo-gymnast-id", e, "Emma", "Davis", "gymnast", "demo-gym-id", LoadTime)]

\* demoUsers[email] as a truthiness test
HasDemoUser(email) == email \in DOMAIN demoUsers

\* A synthesized profile that is given a staff role.
DemoSignUpProfileCoach(email, first, last, t) ==
    Profile("demo-" \o ToString(t), email, first, last, "coach", NULL, t)

\* The profile signUp synthesizes when no provider is configured.
DemoSignUpProfile(email, first, last, t) ==
    Profile("demo-" \o ToString(t), email, first, last, "gymnast", NULL, t)

(***************************************************************************)
(* Inputs.                                                                 *)
(***************************************************************************)
MemberEmail == "member@x.com"
MemberPassword == "secret"
NewEmail == "new@x.com"

LoginInputs ==
    {<<"admin@demo.com", DemoPassword>>, <<"coach@demo.com", DemoPassword>>,
     <<"gymnast@demo.com", DemoPassword>>, <<"coach@demo.com", "wrong">>,
     <<MemberEmail, MemberPassword>>, <<"unknown@x.com", "wrong">>,
     <<NewEmail, DemoPassword>>}

SignUpInputs == {<<NewEmail, DemoPassword, "A", "B">>}

Clock == 0..MaxClock

\* A provider account registered with a catalog email and the demo password,
\* whose email was never confirmed: the case the fallback in login's signIn
\* error branch is written for.
UnverifiedDemoAccount == <<"coach@demo.com", DemoPassword>>

AccountId(email) == "uid:" \o email
AccountIds == {AccountId(MemberEmail), AccountId(NewEmail)}

\* The profile row the store holds for the account that exists from the start.
MemberRow == Profile(AccountId(MemberEmail), MemberEmail, "Mia", "Member", "coach", "gym-1", LoadTime)

(***************************************************************************)
(* JSON.stringify / JSON.parse on the values that can meet the slot.       *)
(***************************************************************************)
Quote(s) == "\"" \o s \o "\""
StrOrNull(s) == IF s = NULL THEN "null" ELSE Quote(s)
BoolText(b) == IF b THEN "true" ELSE "false"

StringifyProfile(p) ==
    "{\"id\":" \o Quote(p.id) \o ",\"email\":" \o Quote(p.email)
    \o ",\"first_name\":" \o Quote(p.first_name) \o ",\"last_name\":" \o Quote(p.last_name)
    \o ",\"role\":" \o Quote(p.role) \o ",\"gym_id\":" \o StrOrNull(p.gym_id)
    \o ",\"phone\":" \o StrOrNull(p.phone) \o ",\"date_of_birth\":" \o StrOrNull(p.date_of_birth)
    \o ",\"is_active\":" \o BoolText(p.is_active)
    \o ",\"created_at\":" \o Quote(p.created_at) \o ",\"updated_at\":" \o Quote(p.updated_at) \o "}"

IsProfile(v) == {"id", "role"} \subseteq DOMAIN v

Stringify(v) ==
    IF v = JsNull THEN "null"
    ELSE IF DOMAIN v = {"jsnumber"} THEN ToString(v.jsnumber)
    ELSE IF DOMAIN v = {"note"} THEN "{\"note\":" \o Quote(v.note) \o "}"
    ELSE StringifyProfile(v)

\* Every value whose text can be in the slot.
JsonValues ==
    {JsNull, JsNumber, JsOther}
    \cup {demoUsers[e] : e \in DOMAIN demoUsers}
    \cup {DemoSignUpProfile(i[1], i[3], i[4], t) : i \in SignUpInputs, t \in Clock}

\* JSON.parse: the value whose text this is, or a SyntaxError.
Parse(text) ==
    IF \E v \in JsonValues : Stringify(v) = text
    THEN [ok |-> TRUE, value |-> CHOOSE v \in JsonValues : Stringify(v) = text]
    ELSE [ok |-> FALSE, value |-> JsNull]

\* Truthiness of what localStorage.getItem returns: null and "" are falsy.
Truthy(item) == item # NULL /\ item # ""

GarbageText == "{not json"

\* What the slot can hold when the application starts.
InitialSlots ==
    {NULL, "", GarbageText, "null", Stringify(JsNumber), Stringify(JsOther),
     Stringify(demoUsers["coach@demo.com"])}

(***************************************************************************)
(* State.                                                                  *)
(***************************************************************************)
VARIABLES
    user,          \* useState: the profile, or JsNull
    authUser,      \* useState: the provider identity (its account id), or NULL
    isLoading,     \* useState
    error,         \* useState: message or NULL
    localStorage,  \* the 'demoUser' slot: its text, or NULL when absent
    isSupabaseConfigured,
    now,           \* the latest reading of Date.now()
    phase,         \* "unmounted", "mounted", "gone"
    effectSub,     \* the subscription the effect's cleanup will cancel, or 0
    subs,          \* live change-notification subscriptions
    nextSub,       \* id of the next subscription
    getSessionPending, \* getSession() promises not yet resolved
    loads,         \* loadUserProfile calls awaiting getUserProfile, per user id
    loginPc, signUpPc, logoutPc,   \* the operation in flight, per kind
    session,       \* provider: the current session's account id, or NULL
    accounts,      \* provider: <<email, password>> of the accounts that exist
    rows,          \* store: the user_profiles rows
    events,        \* change notifications not yet delivered
    calls,         \* counter against MaxCalls
    ev,            \* the step just taken
    suTrace,       \* provider / store calls of the latest signUp, in order
    demoIds,       \* ids synthesized by signUp so far, in call order
    lastApi,       \* "login" while a provider login is the latest UI call,
                   \* "login:signedIn" once its signIn succeeded, else "other"
    hook,          \* the data hook in use: "none" or the hook's name
    loading,       \* the hook's useState(true)
    hookError,     \* the hook's error: message or NULL
    hookData,      \* the hook's list: "[]" or "rows" once a fetch filled it
    deps,          \* the dependency value of the hook effect's latest run
    fetching,      \* the hook's queries not yet answered
    channel        \* useNotifications: the realtime subscription is live

reactState == <<user, authUser, isLoading, error>>
provider == <<session, accounts, rows, events>>
inflight == <<getSessionPending, loads, loginPc, signUpPc, logoutPc>>
mounting == <<phase, effectSub, subs, nextSub>>
ghosts == <<suTrace, demoIds, lastApi>>
hooks == <<hook, loading, hookError, hookData, deps, fetching, channel>>
config == <<isSupabaseConfigured, hooks>>
vars == <<user, authUser, isLoading, error, localStorage, isSupabaseConfigured, now,
          phase, effectSub, subs, nextSub, getSessionPending, loads,
          loginPc, signUpPc, logoutPc, session, accounts, rows, events,
          calls, ev, suTrace, demoIds, lastApi, hooks>>

\* JavaScript's undefined, where a string or null can stand.
UNDEFINED == "<undefined>"

Idle == [st |-> "idle", email |-> "", password |-> "", first |-> "", last |-> "", userId |-> ""]

\* A step: the operation, how it ended, the credentials it was called with,
\* and the text it read or reported.
Ev(op, out, email, msg) ==
    [op |-> op, out |-> out, email |-> email, password |-> "", msg |-> msg]

LoginEv(out, email, password, msg) ==
    [Ev("login", out, email, msg) EXCEPT !.password = password]

Init ==
    /\ user = JsNull
    /\ authUser = NULL
    /\ isLoading = TRUE
    /\ error = NULL
    /\ localStorage \in InitialSlots
    /\ isSupabaseConfigured \in BOOLEAN
    /\ now = 0
    /\ phase = "unmounted"
    /\ effectSub = 0
    /\ subs = {}
    /\ nextSub = 1
    /\ getSessionPending = 0
    /\ loads = [id \in AccountIds |-> 0]
    /\ loginPc = Idle
    /\ signUpPc = Idle
    /\ logoutPc = "idle"
    /\ session \in (IF isSupabaseConfigured THEN {NULL, AccountId(MemberEmail)} ELSE {NULL})
    /\ accounts = {<<MemberEmail, MemberPassword>>, UnverifiedDemoAccount}
    /\ rows = {MemberRow}
    /\ events = <<>>
    /\ calls = 0
    /\ ev = Ev("init", "", "", "")
    /\ suTrace = <<>>
    /\ demoIds = <<>>
    /\ lastApi = "other"
    /\ hook = "none"
    /\ loading = TRUE
    /\ hookError = NULL
    /\ hookData = "[]"
    /\ deps = UNDEFINED
    /\ fetching = 0
    /\ channel = FALSE

(***************************************************************************)
(* The startup effect (useEffect with no dependencies).                    *)
(***************************************************************************)
\* An effect body without the early return: it restores the stored profile
\* and still looks up the session and subscribes.
EffectNoReturn(live, op) ==
    LET demoUser == localStorage IN
    /\ IF Truthy(demoUser) /\ Parse(demoUser).ok
       THEN /\ user' = Parse(demoUser).value
            /\ isLoading' = FALSE
            /\ ev' = Ev(op, "restored", "", demoUser)
            /\ UNCHANGED localStorage
       ELSE /\ localStorage' = IF Truthy(demoUser) THEN NULL ELSE localStorage
            /\ ev' = Ev(op, "continued", "", demoUser)
            /\ UNCHANGED <<user, isLoading>>
    /\ getSessionPending' = getSessionPending + 1
    /\ subs' = live \cup {nextSub}
    /\ effectSub' = nextSub
    /\ nextSub' = nextSub + 1
    /\ UNCHANGED <<authUser, error>>

\* The effect body, run with `live` the subscriptions live before it.  The
\* step records the text getItem returned (NULL when the slot is absent).
Effect(live, op) ==
    LET demoUser == localStorage IN
    IF Truthy(demoUser) /\ Parse(demoUser).ok
    THEN /\ user' = Parse(demoUser).value
         /\ isLoading' = FALSE
         /\ effectSub' = 0
         /\ subs' = live
         /\ ev' = Ev(op, "restored", "", demoUser)
         /\ UNCHANGED <<authUser, error, localStorage, nextSub, getSessionPending>>
    ELSE /\ localStorage' = IF Truthy(demoUser) THEN NULL ELSE localStorage
         /\ getSessionPending' = getSessionPending + 1
         /\ subs' = live \cup {nextSub}
         /\ effectSub' = nextSub
         /\ nextSub' = nextSub + 1
         /\ ev' = Ev(op, "continued", "", demoUser)
         /\ UNCHANGED <<user, authUser, isLoading, error>>

Mount ==
    /\ phase = "unmounted"
    /\ phase' = "mounted"
    /\ Effect(subs, "mount")
    /\ UNCHANGED <<config, now, loads, loginPc, signUpPc, logoutPc,
                   provider, calls, ghosts>>

\* A second effect run whose first run was never cleaned up.
StrictRemountNoCleanup ==
    /\ phase = "mounted"
    /\ ev.op = "mount"
    /\ Effect(subs, "remount")
    /\ UNCHANGED <<phase, config, now, loads, loginPc, signUpPc, logoutPc,
                   provider, calls, ghosts>>

\* React StrictMode (src/src/main.tsx) runs the effect, its cleanup and the
\* effect again, synchronously, when the component first mounts in a
\* development build.
StrictRemount ==
    /\ phase = "mounted"
    /\ ev.op = "mount"
    /\ Effect(subs \ {effectSub}, "remount")
    /\ UNCHANGED <<phase, config, now, loads, loginPc, signUpPc, logoutPc,
                   provider, calls, ghosts>>

\* The cleanup returned by the effect, run when the component goes away.
Unmount ==
    /\ phase = "mounted"
    /\ calls < MaxCalls
    /\ calls' = calls + 1
    /\ phase' = "gone"
    /\ subs' = subs \ {effectSub}
    /\ effectSub' = 0
    /\ ev' = Ev("unmount", "", "", "")
    /\ UNCHANGED <<reactState, localStorage, config, now, nextSub, inflight,
                   provider, ghosts>>

\* loadUserProfile(userId) up to its await.
StartLoad(userId) == [loads EXCEPT ![userId] = @ + 1]

\* supabase.auth.getSession().then(...)
GetSessionResolve ==
    /\ getSessionPending > 0
    /\ getSessionPending' = getSessionPending - 1
    /\ IF session # NULL
       THEN /\ authUser' = session
            /\ loads' = StartLoad(session)
            /\ ev' = Ev("getSession", "session", "", "")
            /\ UNCHANGED <<user, isLoading, error>>
       ELSE /\ isLoading' = FALSE
            /\ ev' = Ev("getSession", "none", "", "")
            /\ UNCHANGED <<user, authUser, error, loads>>
    /\ UNCHANGED <<localStorage, config, now, mounting, loginPc, signUpPc,
                   logoutPc, provider, calls, ghosts>>

\* A session-ended branch that forgets the profile.
SessionEndedKeepsProfile ==
    /\ authUser' = NULL
    /\ isLoading' = FALSE
    /\ UNCHANGED user

\* The handler's branch for a notification without a session: lines 141-143.
SessionEnded ==
    /\ authUser' = NULL
    /\ user' = JsNull
    /\ isLoading' = FALSE

\* The callback given to supabase.auth.onAuthStateChange, run on the oldest
\* undelivered notification; a notification for a cancelled subscription is
\* dropped.
OnAuthStateChange ==
    /\ events # <<>>
    /\ events' = Tail(events)
    /\ LET n == Head(events) IN
       IF n.sub \notin subs
       THEN /\ ev' = Ev("notify", "dropped", "", "")
            /\ UNCHANGED <<reactState, loads>>
       ELSE IF n.session # NULL
       THEN /\ authUser' = n.session
            /\ loads' = StartLoad(n.session)
            /\ ev' = Ev("notify", "session", "", "")
            /\ UNCHANGED <<user, isLoading, error>>
       ELSE /\ SessionEnded
            /\ ev' = Ev("notify", "ended", "", "")
            /\ UNCHANGED <<error, loads>>
    /\ UNCHANGED <<localStorage, config, now, mounting, getSessionPending,
                   loginPc, signUpPc, logoutPc, session, accounts, rows, calls, ghosts>>

\* getUserProfile(userId): the row, or a failure (missing row, store error,
\* or a rejected promise).
GetUserProfileResults(userId) ==
    {[kind |-> "data", data |-> r] : r \in {q \in rows : q.id = userId}}
    \cup {[kind |-> "error", data |-> JsNull], [kind |-> "throw", data |-> JsNull]}

\* loadUserProfile from its await to its end.
LoadUserProfile(userId) ==
    /\ loads[userId] > 0
    /\ loads' = [loads EXCEPT ![userId] = @ - 1]
    /\ \E res \in GetUserProfileResults(userId) :
          /\ IF res.kind = "data"
             THEN user' = res.data /\ UNCHANGED error
             ELSE error' = "Failed to load user profile" /\ UNCHANGED user
          /\ ev' = Ev("load", IF res.kind = "data" THEN "data" ELSE "failed", "", "")
    /\ isLoading' = FALSE
    /\ UNCHANGED <<authUser, localStorage, config, now, mounting,
                   getSessionPending, loginPc, signUpPc, logoutPc, provider, calls,
                   ghosts>>

\* One notification per live subscription, oldest subscription first.
RECURSIVE Notifications(_, _)
Notifications(live, s) ==
    IF live = {} THEN <<>>
    ELSE LET m == CHOOSE x \in live : \A y \in live : x <= y
         IN <<[sub |-> m, session |-> s]>> \o Notifications(live \ {m}, s)

Emit(s) == events \o Notifications(subs, s)

\* A session change that does not come from this tab: the session expires
\* or is revoked, or its token is refreshed.
ExternalChange ==
    /\ isSupabaseConfigured
    /\ phase # "unmounted"
    /\ calls < MaxCalls
    /\ calls' = calls + 1
    /\ session # NULL
    /\ \E s \in {NULL, session} :
          /\ session' = s
          /\ events' = Emit(s)
          /\ ev' = Ev("external", IF s = NULL THEN "ended" ELSE "refreshed", "", "")
    /\ lastApi' = "other"
    /\ UNCHANGED <<reactState, localStorage, config, now, mounting, inflight,
                   accounts, rows, suTrace, demoIds>>


(***************************************************************************)
(* The identity provider and the profile store, as far as the component   *)
(* sees them: what each call can answer.                                   *)
(***************************************************************************)
\* signIn(email, password): "ok" or the error's message.
SignInResults(email, password) ==
    IF <<email, password>> \in accounts
    THEN {"ok", "Email not confirmed"}
    ELSE {"Invalid login credentials"}

\* supabaseSignUp(email, password, seed): "ok", "noid" (no error, no user)
\* or the error's message.
CreateAccountResults(email) ==
    IF \E a \in accounts : a[1] = email
    THEN {"User already registered"}
    ELSE {"ok", "noid"}

\* createUserProfile(seed): "ok" or the error's message.
CreateProfileResults(seed) ==
    IF \E r \in rows : r.id = seed.id
    THEN {"duplicate key value violates unique constraint"}
    ELSE {"ok", "new row violates row-level security policy"}

\* The row the store keeps for a seed: the columns the seed leaves out take
\* their defaults.
RowFromSeed(seed) ==
    Profile(seed.id, seed.email, seed.first_name, seed.last_name, seed.role, NULL, LoadTime)

\* signOut(): "ok" or the error's message.
SignOutResults == {"ok", "Network request failed"}

(***************************************************************************)
(* login                                                                   *)
(***************************************************************************)
\* A demo branch that forgets to persist the profile.
DemoLoginNoPersist(email) ==
    /\ user' = demoUsers[email]
    /\ isLoading' = FALSE
    /\ UNCHANGED localStorage

\* The demo branch: lines 180-185, and again 206-210.
DemoLogin(email) ==
    /\ user' = demoUsers[email]
    /\ localStorage' = Stringify(demoUsers[email])
    /\ isLoading' = FALSE

NotConfiguredMessage == "Supabase credentials are not configured."

\* A resolver that knows the admin entry only.
DemoResolverAdminOnly(email, password) ==
    password = DemoPassword /\ email = "admin@demo.com"

\* The demo resolver: the test of line 179.
DemoResolver(email, password) ==
    password = DemoPassword /\ HasDemoUser(email)

\* login(email, password) up to its first await, or to its end.
Login(email, password) ==
    /\ phase = "mounted"
    /\ calls < MaxCalls
    /\ loginPc.st = "idle"
    /\ calls' = calls + 1
    /\ IF DemoResolver(email, password)
       THEN /\ DemoLogin(email)
            /\ error' = NULL
            /\ ev' = LoginEv("demo", email, password, "")
            /\ lastApi' = "other"
            /\ UNCHANGED <<authUser, loginPc>>
       ELSE IF ~isSupabaseConfigured
       THEN /\ error' = NotConfiguredMessage
            /\ isLoading' = FALSE
            /\ ev' = LoginEv("throw", email, password, NotConfiguredMessage)
            /\ lastApi' = "other"
            /\ UNCHANGED <<user, authUser, localStorage, loginPc>>
       ELSE /\ isLoading' = TRUE
            /\ error' = NULL
            /\ loginPc' = [Idle EXCEPT !.st = "signIn", !.email = email, !.password = password]
            /\ ev' = LoginEv("pending", email, password, "")
            /\ lastApi' = "login"
            /\ UNCHANGED <<user, authUser, localStorage>>
    /\ UNCHANGED <<config, now, mounting, getSessionPending, loads, signUpPc,
                   logoutPc, provider, suTrace, demoIds>>

\* A catch block that also drops the profile it holds.
LoginCatchDropsProfile(msg) ==
    /\ error' = msg
    /\ isLoading' = FALSE
    /\ user' = JsNull
    /\ UNCHANGED <<authUser, localStorage>>

\* The catch block of login: lines 218-223.
LoginCatch(msg) ==
    /\ error' = msg
    /\ isLoading' = FALSE
    /\ UNCHANGED <<user, authUser, localStorage>>

\* login after `await signIn(email, password)`.
LoginSignIn ==
    /\ loginPc.st = "signIn"
    /\ loginPc' = Idle
    /\ LET email == loginPc.email
           password == loginPc.password
       IN \E res \in SignInResults(email, password) :
          IF res = "ok"
          THEN /\ session' = AccountId(email)
               /\ events' = Emit(AccountId(email))
               /\ ev' = Ev("loginSignIn", "ok", email, "")
               /\ lastApi' = IF lastApi = "login" THEN "login:signedIn" ELSE lastApi
               /\ UNCHANGED <<reactState, localStorage>>
          ELSE IF res = "Email not confirmed" /\ password = DemoPassword /\ HasDemoUser(email)
          THEN /\ DemoLogin(email)
               /\ ev' = Ev("loginSignIn", "demo", email, "")
               /\ lastApi' = IF lastApi = "login" THEN "other" ELSE lastApi
               /\ UNCHANGED <<authUser, error, session, events>>
          ELSE /\ LoginCatch(res)
               /\ ev' = Ev("loginSignIn", "throw", email, res)
               /\ lastApi' = IF lastApi = "login" THEN "other" ELSE lastApi
               /\ UNCHANGED <<session, events>>
    /\ UNCHANGED <<config, now, mounting, getSessionPending, loads, signUpPc,
                   logoutPc, accounts, rows, calls, suTrace, demoIds>>

(***************************************************************************)
(* signUp                                                                  *)
(***************************************************************************)
\* The seed given to supabaseSignUp (lines 257-262).
AccountSeed(email, first, last) ==
    [email |-> email, first_name |-> first, last_name |-> last, role |-> "gymnast"]

\* The seed given to createUserProfile (lines 285-291).
ProfileSeed(userId, email, first, last) ==
    [id |-> userId, email |-> email, first_name |-> first, last_name |-> last,
     role |-> "gymnast"]

Call(name, email, password, seed) ==
    [call |-> name, email |-> email, password |-> password, seed |-> seed, out |-> "pending"]

\* The trace with the answer to its latest call filled in.
Answered(out) == [suTrace EXCEPT ![Len(suTrace)].out = out]

\* signUp with no provider configured: lines 236-252.
DemoSignUp(email, first, last, t) ==
    LET demoUser == DemoSignUpProfile(email, first, last, t) IN
    /\ now' = t
    /\ user' = demoUser
    /\ localStorage' = Stringify(demoUser)
    /\ isLoading' = FALSE
    /\ demoIds' = Append(demoIds, demoUser.id)
    /\ suTrace' = <<>>
    /\ UNCHANGED signUpPc

\* signUp(email, password, firstName, lastName) up to its first await, or
\* to its end.
SignUp(email, password, first, last) ==
    /\ phase = "mounted"
    /\ calls < MaxCalls
    /\ signUpPc.st = "idle"
    /\ calls' = calls + 1
    /\ error' = NULL
    /\ IF ~isSupabaseConfigured
       THEN /\ \E t \in now..MaxClock : DemoSignUp(email, first, last, t)
            /\ ev' = Ev("signUp", "demo", email, "")
            /\ lastApi' = "other"
       ELSE /\ isLoading' = TRUE
            /\ signUpPc' = [st |-> "create", email |-> email, password |-> password,
                            first |-> first, last |-> last, userId |-> ""]
            /\ suTrace' = <<Call("createAccount", email, password,
                                 AccountSeed(email, first, last))>>
            /\ ev' = Ev("signUp", "pending", email, "")
            /\ lastApi' = "other"
            /\ UNCHANGED <<user, localStorage, now, demoIds>>
    /\ UNCHANGED <<authUser, config, mounting, getSessionPending, loads,
                   loginPc, logoutPc, provider>>

\* A catch block that records the error and lets signUp carry on with its
\* next step.
SignUpFailNoAbort(step, msg) ==
    /\ error' = msg
    /\ isLoading' = FALSE
    /\ signUpPc' = IF step = "signUpCreate"
                   THEN [signUpPc EXCEPT !.st = "signIn",
                                         !.userId = AccountId(signUpPc.email)]
                   ELSE IF step = "signUpSignIn"
                   THEN [signUpPc EXCEPT !.st = "profile"]
                   ELSE Idle
    /\ suTrace' = IF step = "signUpCreate"
                  THEN Append(Answered(msg),
                              Call("signIn", signUpPc.email, signUpPc.password, JsNull))
                  ELSE IF step = "signUpSignIn"
                  THEN Append(Answered(msg),
                              Call("createProfile", signUpPc.email, "",
                                   ProfileSeed(signUpPc.userId, signUpPc.email,
                                               signUpPc.first, signUpPc.last)))
                  ELSE Answered(msg)
    /\ ev' = Ev(step, "throw", signUpPc.email, msg)
    /\ UNCHANGED lastApi
    /\ UNCHANGED <<user, authUser, localStorage, session, accounts, rows, events>>

\* A catch block that compensates: it deletes the account it created.
SignUpFailRollback(step, msg) ==
    /\ error' = msg
    /\ isLoading' = FALSE
    /\ signUpPc' = Idle
    /\ suTrace' = Answered(msg)
    /\ ev' = Ev(step, "throw", signUpPc.email, msg)
    /\ UNCHANGED lastApi
    /\ accounts' = {a \in accounts : a[1] # signUpPc.email}
    /\ UNCHANGED <<user, authUser, localStorage, session, rows, events>>

\* The catch block of signUp: lines 297-302.
SignUpFail(step, msg) ==
    /\ error' = msg
    /\ isLoading' = FALSE
    /\ signUpPc' = Idle
    /\ suTrace' = Answered(msg)
    /\ ev' = Ev(step, "throw", signUpPc.email, msg)
    /\ UNCHANGED lastApi
    /\ UNCHANGED <<user, authUser, localStorage, session, accounts, rows, events>>

NoUserIdMessage == "Sign up succeeded but no user ID returned"

\* signUp after `await supabaseSignUp(...)`.
SignUpCreate ==
    /\ signUpPc.st = "create"
    /\ \E res \in CreateAccountResults(signUpPc.email) :
          IF res = "ok"
          THEN /\ accounts' = accounts \cup {<<signUpPc.email, signUpPc.password>>}
               /\ signUpPc' = [signUpPc EXCEPT !.st = "signIn",
                                               !.userId = AccountId(signUpPc.email)]
               /\ suTrace' = Append(Answered("ok"),
                                    Call("signIn", signUpPc.email, signUpPc.password, JsNull))
               /\ ev' = Ev("signUpCreate", "ok", signUpPc.email, "")
               /\ UNCHANGED lastApi
               /\ UNCHANGED <<reactState, localStorage, session, rows, events>>
          ELSE SignUpFail("signUpCreate", IF res = "noid" THEN NoUserIdMessage ELSE res)
    /\ UNCHANGED <<config, now, mounting, getSessionPending, loads, loginPc,
                   logoutPc, calls, demoIds>>

\* signUp after `await signIn(email, password)`.
SignUpSignIn ==
    /\ signUpPc.st = "signIn"
    /\ \E res \in SignInResults(signUpPc.email, signUpPc.password) :
          IF res = "ok"
          THEN /\ session' = AccountId(signUpPc.email)
               /\ events' = Emit(AccountId(signUpPc.email))
               /\ signUpPc' = [signUpPc EXCEPT !.st = "profile"]
               /\ suTrace' = Append(Answered("ok"),
                                    Call("createProfile", signUpPc.email, "",
                                         ProfileSeed(signUpPc.userId, signUpPc.email,
                                                     signUpPc.first, signUpPc.last)))
               /\ ev' = Ev("signUpSignIn", "ok", signUpPc.email, "")
               /\ UNCHANGED lastApi
               /\ UNCHANGED <<reactState, localStorage, accounts, rows>>
          ELSE SignUpFail("signUpSignIn", res)
    /\ UNCHANGED <<config, now, mounting, getSessionPending, loads, loginPc,
                   logoutPc, calls, demoIds>>

\* signUp after `await createUserProfile(...)`.
SignUpProfile ==
    /\ signUpPc.st = "profile"
    /\ LET seed == suTrace[Len(suTrace)].seed IN
       \E res \in CreateProfileResults(seed) :
          IF res = "ok"
          THEN /\ rows' = rows \cup {RowFromSeed(seed)}
               /\ signUpPc' = Idle
               /\ suTrace' = Answered("ok")
               /\ ev' = Ev("signUpProfile", "ok", signUpPc.email, "")
               /\ UNCHANGED lastApi
               /\ UNCHANGED <<reactState, localStorage, session, accounts, events>>
          ELSE SignUpFail("signUpProfile", res)
    /\ UNCHANGED <<config, now, mounting, getSessionPending, loads, loginPc,
                   logoutPc, calls, demoIds>>

(***************************************************************************)
(* logout                                                                  *)
(***************************************************************************)
\* logout() up to `await signOut()`.
Logout ==
    /\ phase = "mounted"
    /\ calls < MaxCalls
    /\ logoutPc = "idle"
    /\ calls' = calls + 1
    /\ error' = NULL
    /\ localStorage' = NULL
    /\ logoutPc' = "signOut"
    /\ ev' = Ev("logout", "pending", "", "")
    /\ lastApi' = "other"
    /\ UNCHANGED <<user, authUser, isLoading, config, now, mounting,
                   getSessionPending, loads, loginPc, signUpPc, provider, suTrace,
                   demoIds>>

\* A reset that clears the profile and keeps the identity.
LogoutResetKeepsIdentity ==
    /\ user' = JsNull
    /\ UNCHANGED authUser
    /\ UNCHANGED <<isLoading, localStorage>>

\* The "reset state" lines of logout: 320-321.
LogoutReset ==
    /\ user' = JsNull
    /\ authUser' = NULL
    /\ UNCHANGED <<isLoading, localStorage>>

\* logout after `await signOut()`.
LogoutSignOut ==
    /\ logoutPc = "signOut"
    /\ logoutPc' = "idle"
    /\ \E res \in SignOutResults :
          /\ IF res = "ok"
             THEN /\ session' = NULL
                  /\ events' = Emit(NULL)
                  /\ UNCHANGED error
             ELSE /\ error' = res
                  /\ UNCHANGED <<session, events>>
          /\ ev' = Ev("logoutSignOut", IF res = "ok" THEN "ok" ELSE "error", "",
                      IF res = "ok" THEN "" ELSE res)
    /\ LogoutReset
    /\ UNCHANGED lastApi
    /\ UNCHANGED <<config, now, mounting, getSessionPending, loads, loginPc,
                   signUpPc, accounts, rows, calls, suTrace, demoIds>>

Next ==
    \/ Mount
    \/ StrictRemount
    \/ Unmount
    \/ GetSessionResolve
    \/ OnAuthStateChange
    \/ \E id \in AccountIds : LoadUserProfile(id)
    \/ \E i \in LoginInputs : Login(i[1], i[2])
    \/ LoginSignIn
    \/ \E i \in SignUpInputs : SignUp(i[1], i[2], i[3], i[4])
    \/ SignUpCreate
    \/ SignUpSignIn
    \/ SignUpProfile
    \/ Logout
    \/ LogoutSignOut
    \/ ExternalChange

Spec == Init /\ [][Next]_vars

(***************************************************************************)
(* The data hooks (src/unnamed/part_000).  One hook instance is followed   *)
(* at a time; its list is kept only as empty or filled.                    *)
(***************************************************************************)
HookNames == {"useEvents", "useGymnasts", "useNotifications"}

\* user?.gym_id and user?.id
GymIdOf(u) == IF IsProfile(u) THEN u.gym_id ELSE UNDEFINED
UserIdOf(u) == IF IsProfile(u) THEN u.id ELSE UNDEFINED

\* !v for a string, null or undefined
Falsy(v) == v \in {UNDEFINED, NULL, ""}

\* The value the hook's effect depends on: [] for useEvents, [user?.gym_id]
\* (through fetchGymnasts) for useGymnasts, [user?.id] for useNotifications.
DepOf(h, u) ==
    CASE h = "useGymnasts" -> GymIdOf(u)
      [] h = "useNotifications" -> UserIdOf(u)
      [] OTHER -> UNDEFINED

\* A query to the store: answered with rows or with an error.
FetchResults == {"ok", "Failed to fetch"}

\* setLoading(true) and the query sent, up to the await.
StartFetch ==
    /\ loading' = TRUE
    /\ fetching' = fetching + 1

\* fetchEvents up to its await.
fetchEvents == StartFetch

\* fetchGymnasts up to its await, or to its early return.
fetchGymnasts ==
    IF Falsy(GymIdOf(user))
    THEN UNCHANGED <<loading, fetching>>
    ELSE StartFetch

\* The effect of useNotifications, after the cleanup of its previous run.
NotificationsEffect ==
    IF Falsy(UserIdOf(user))
    THEN /\ loading' = FALSE
         /\ channel' = FALSE
         /\ UNCHANGED fetching
    ELSE /\ StartFetch
         /\ channel' = TRUE

\* The effect of hook h.
HookEffect(h) ==
    /\ deps' = DepOf(h, user)
    /\ CASE h = "useEvents" -> fetchEvents /\ UNCHANGED channel
         [] h = "useGymnasts" -> fetchGymnasts /\ UNCHANGED channel
         [] h = "useNotifications" -> NotificationsEffect

authFrame == <<user, authUser, isLoading, error, localStorage, isSupabaseConfigured, now,
               mounting, inflight, provider, ghosts>>

\* A component that uses hook h mounts: first render and first effect run.
HookMount(h) ==
    /\ phase = "mounted"
    /\ hook = "none"
    /\ hook' = h
    /\ HookEffect(h)
    /\ ev' = Ev("hookMount", h, "", "")
    /\ UNCHANGED <<hookError, hookData, calls, authFrame>>

\* StrictMode's second run of the effect right after the mount.
HookStrictRemount ==
    /\ phase = "mounted"
    /\ ev.op = "hookMount"
    /\ HookEffect(hook)
    /\ ev' = Ev("hookRemount", hook, "", "")
    /\ UNCHANGED <<hook, hookError, hookData, calls, authFrame>>

\* A render after the context's user changed the hook's dependency: the
\* effect runs again.
HookRender ==
    /\ phase = "mounted"
    /\ hook # "none"
    /\ deps # DepOf(hook, user)
    /\ HookEffect(hook)
    /\ ev' = Ev("hookRender", hook, "", "")
    /\ UNCHANGED <<hook, hookError, hookData, calls, authFrame>>

\* refetch(), which useEvents and useGymnasts return.
Refetch ==
    /\ phase = "mounted"
    /\ hook \in {"useEvents", "useGymnasts"}
    /\ calls < MaxCalls
    /\ calls' = calls + 1
    /\ IF hook = "useEvents" THEN fetchEvents ELSE fetchGymnasts
    /\ ev' = Ev("refetch", hook, "", "")
    /\ UNCHANGED <<hook, hookError, hookData, deps, channel, authFrame>>

\* A fetch from its await to its end: try, catch and finally.
FetchReturn ==
    /\ phase = "mounted"
    /\ fetching > 0
    /\ fetching' = fetching - 1
    /\ \E res \in FetchResults :
          /\ IF res = "ok"
             THEN hookData' = "rows" /\ UNCHANGED hookError
             ELSE hookError' = res /\ UNCHANGED hookData
          /\ ev' = Ev("fetchReturn", IF res = "ok" THEN "ok" ELSE "error", "", "")
    /\ loading' = FALSE
    /\ UNCHANGED <<hook, deps, channel, calls, authFrame>>

\* The component goes away: the cleanup runs and the hook's state is dropped.
HookUnmount ==
    /\ phase = "mounted"
    /\ hook # "none"
    /\ calls < MaxCalls
    /\ calls' = calls + 1
    /\ hook' = "none"
    /\ loading' = TRUE
    /\ hookError' = NULL
    /\ hookData' = "[]"
    /\ deps' = UNDEFINED
    /\ fetching' = 0
    /\ channel' = FALSE
    /\ ev' = Ev("hookUnmount", hook, "", "")
    /\ UNCHANGED authFrame

\* The session manager under the hooks is the one of a deployment with no
\* provider configured: every profile comes from the slot, the demo catalog
\* or signUp's synthesized profile.
HookInit == Init /\ ~isSupabaseConfigured

HookNext ==
    \/ Mount
    \/ StrictRemount
    \/ Unmount
    \/ GetSessionResolve
    \/ OnAuthStateChange
    \/ \E i \in LoginInputs : Login(i[1], i[2])
    \/ \E i \in SignUpInputs : SignUp(i[1], i[2], i[3], i[4])
    \/ Logout
    \/ LogoutSignOut
    \/ \E h \in HookNames : HookMount(h)
    \/ HookStrictRemount
    \/ HookRender
    \/ Refetch
    \/ FetchReturn
    \/ HookUnmount

HookSpec == HookInit /\ [][HookNext]_vars

(***************************************************************************)
(* The states of the session manager.                                      *)
(***************************************************************************)
Unauthenticated == user = JsNull /\ authUser = NULL /\ isLoading = FALSE

IsDemoProfile(v) ==
    \/ v \in {demoUsers[e] : e \in DOMAIN demoUsers}
    \/ v \in {DemoSignUpProfile(i[1], i[3], i[4], t) : i \in SignUpInputs, t \in Clock}

\* Nothing is in flight: every call has returned, every notification has
\* been delivered.
Quiescent ==
    /\ getSessionPending = 0
    /\ \A id \in AccountIds : loads[id] = 0
    /\ loginPc.st = "idle"
    /\ signUpPc.st = "idle"
    /\ logoutPc = "idle"
    /\ events = <<>>

StartupStep == ev.op \in {"mount", "remount"}

(***************************************************************************)
(* Properties.                                                             *)
(***************************************************************************)

\* C1: login(E, 'demo123') for a catalog email E returns without error and
\* leaves profile = catalog[E], the slot equal to the serialization of
\* catalog[E], isLoading = false and error = null, whatever the state it is
\* called from; for coach@demo.com the profile has role 'coach' and gym
\* 'demo-gym-id'.
C1_DemoLogin ==
    (/\ ev.op = "login"
     /\ ev.email \in {"admin@demo.com", "coach@demo.com", "gymnast@demo.com"}
     /\ ev.password = "demo123")
    => /\ ev.out = "demo"
       /\ user = demoUsers[ev.email]
       /\ user.email = ev.email
       /\ localStorage = Stringify(demoUsers[ev.email])
       /\ Parse(localStorage).ok /\ Parse(localStorage).value = user
       /\ isLoading = FALSE
       /\ error = NULL
       /\ (ev.email = "coach@demo.com"
             => user.role = "coach" /\ user.gym_id = "demo-gym-id")

\* A demo login of the coach made while a provider identity is held.
C1_Witness ==
    /\ ev.op = "login"
    /\ ev.out = "demo"
    /\ ev.email = "coach@demo.com"
    /\ authUser # NULL

\* C2: when logout() completes, the slot is absent and the state is
\* Unauthenticated (profile = null, identity = null, isLoading = false),
\* whatever was in flight before or during the logout.
C2_LogoutUnauthenticated ==
    ev.op = "logoutSignOut" => (localStorage = NULL /\ Unauthenticated)

\* C3: identity is non-null only when the profile comes from the provider:
\* never together with a demo profile or a populated slot.
C3_SingleSource ==
    authUser # NULL => (~IsDemoProfile(user) /\ ~Truthy(localStorage))

Authenticated ==
    /\ authUser # NULL
    /\ IsProfile(user)
    /\ user.id = authUser
    /\ isLoading = FALSE

ErrorState == error # NULL /\ isLoading = FALSE

\* C4: a login whose signIn succeeded leaves the state change to the
\* change-notification handler, which loads the profile: once every call has
\* returned and every notification is delivered, the state is Authenticated
\* or ErrorState with isLoading = false, on every startup path.
C4_LoginDeferred ==
    (lastApi = "login:signedIn" /\ Quiescent) => (Authenticated \/ ErrorState)

\* C5: a provider-backed signUp calls create-account, then sign-in with the
\* same credentials, then create-profile keyed by the new account id, in
\* that order, and stops at the first step that fails.
C5_SignUpOrder ==
    /\ Len(suTrace) <= 3
    /\ \A i \in DOMAIN suTrace :
          /\ (i = 1) <=> (suTrace[i].call = "createAccount")
          /\ (i = 2) <=> (suTrace[i].call = "signIn")
          /\ (i = 3) <=> (suTrace[i].call = "createProfile")
          /\ i > 1 => suTrace[i - 1].out = "ok"
          /\ i = 2 => /\ suTrace[2].email = suTrace[1].email
                      /\ suTrace[2].password = suTrace[1].password
                      /\ <<suTrace[1].email, suTrace[1].password>> \in accounts
          /\ i = 3 => suTrace[3].seed.id = AccountId(suTrace[1].email)

\* All three steps of a signUp were made and succeeded.
C5_Witness ==
    /\ Len(suTrace) = 3
    /\ suTrace[3].out = "ok"
    /\ ev.op = "signUpProfile"

\* C6: when a provider-backed signUp fails at sign-in or at create-profile
\* it reports that step's error (error = its message, isLoading = false, an
\* error state) and makes no further call: the account created in the first
\* step still exists.
C6_NoRollback ==
    (ev.op \in {"signUpSignIn", "signUpProfile"} /\ ev.out = "throw")
    => /\ error = ev.msg
       /\ ev.msg = suTrace[Len(suTrace)].out
       /\ suTrace[Len(suTrace)].call = (IF ev.op = "signUpSignIn" THEN "signIn"
                                        ELSE "createProfile")
       /\ ErrorState
       /\ signUpPc.st = "idle"
       /\ suTrace[1].out = "ok"
       /\ <<suTrace[1].email, suTrace[1].password>> \in accounts

\* create-profile was refused after the account was created and signed in.
C6_Witness ==
    /\ ev.op = "signUpProfile"
    /\ ev.out = "throw"
    /\ ev.msg = "new row violates row-level security policy"
    /\ <<NewEmail, DemoPassword>> \in accounts

\* C7: a slot whose content cannot be parsed at startup is removed, and
\* startup goes on as with an empty slot (the session lookup is issued),
\* ending in Unauthenticated when the provider reports no session.
C7_CorruptSlotCleared ==
    /\ (StartupStep /\ ev.msg # NULL /\ ~Parse(ev.msg).ok)
          => (localStorage = NULL /\ ev.out = "continued" /\ getSessionPending > 0)
    /\ (ev.op = "getSession" /\ ev.out = "none" /\ calls = 0) => Unauthenticated

\* C8: at startup the slot is accepted only if it deserializes to a
\* well-formed Profile; any other present content is treated as corrupt: the
\* slot is cleared and the profile is not set from it.
C8_OnlyProfilesAccepted ==
    (StartupStep /\ ev.msg # NULL)
    => IF Parse(ev.msg).ok /\ IsProfile(Parse(ev.msg).value)
       THEN ev.out = "restored" /\ user = Parse(ev.msg).value
       ELSE ev.out = "continued" /\ localStorage = NULL /\ user = JsNull

\* C9: every profile produced by signUp has role 'gymnast' and no gym.
\* Without a provider signUp synthesizes it, persists it, sets it as the
\* profile with isLoading = false and calls neither provider nor store;
\* with a provider the seeds of create-account and create-profile carry
\* role 'gymnast' and no gym.
C9_SignUpIsGymnast ==
    /\ (ev.op = "signUp" /\ ev.out = "demo")
          => /\ IsProfile(user)
             /\ user.role = "gymnast"
             /\ user.gym_id = NULL
             /\ user.email = ev.email
             /\ localStorage = Stringify(user)
             /\ isLoading = FALSE
             /\ suTrace = <<>>
             /\ signUpPc.st = "idle"
    /\ \A i \in DOMAIN suTrace :
          suTrace[i].call \in {"createAccount", "createProfile"}
             => /\ suTrace[i].seed.role = "gymnast"
                /\ "gym_id" \notin DOMAIN suTrace[i].seed

\* A signUp without a provider has just synthesized a profile.
C9_Witness ==
    /\ ev.op = "signUp"
    /\ ev.out = "demo"
    /\ ~isSupabaseConfigured
    /\ IsProfile(user)
    /\ user.role = "gymnast"

\* C10: without a provider, any two signUp calls produce different ids,
\* also when both read the same clock value.
C10_UniqueIds ==
    \A i, j \in DOMAIN demoIds : i # j => demoIds[i] # demoIds[j]

\* C11: a login that the demo resolver does not match and the provider
\* rejects throws the provider's error, sets error to its message and
\* isLoading to false, and changes neither the slot, the profile nor the
\* identity, at the call and at the rejection.
C11_RejectedLoginFrame ==
    [][(ev'.op \in {"login", "loginSignIn"} /\ ev'.out \in {"pending", "throw"}
        /\ isSupabaseConfigured)
       => /\ user' = user
          /\ authUser' = authUser
          /\ localStorage' = localStorage
          /\ (ev'.out = "throw"
                => /\ ev'.op = "loginSignIn"
                   /\ ev'.msg \in {"Invalid login credentials", "Email not confirmed"}
                   /\ error' = ev'.msg
                   /\ isLoading' = FALSE)]_vars

\* login('unknown@x.com', 'wrong') was rejected while a profile was held.
C11_Witness ==
    /\ ev.op = "loginSignIn"
    /\ ev.out = "throw"
    /\ ev.email = "unknown@x.com"
    /\ ev.msg = "Invalid login credentials"
    /\ user # JsNull

\* C12: with no provider configured, every login and signUp call returns
\* successfully and leaves error = null.
C12_NoProviderNeverFails ==
    (~isSupabaseConfigured /\ ev.op \in {"login", "signUp"})
    => (ev.out # "throw" /\ error = NULL)

\* C13: a change notification that carries no session sets identity = null,
\* profile = null and isLoading = false, whatever error is recorded: the
\* state is Unauthenticated afterwards.
C13_SessionEnded ==
    (ev.op = "notify" /\ ev.out = "ended") => Unauthenticated

\* A session-ended notification was handled while an error was recorded.
C13_Witness ==
    /\ ev.op = "notify"
    /\ ev.out = "ended"
    /\ error # NULL
    /\ session = NULL

\* C14: startup with an empty slot ends in one of three states: a provider
\* session whose profile load succeeded gives Authenticated; a provider
\* session whose profile load failed gives identity retained, profile null,
\* error populated, isLoading false; no provider session gives
\* Unauthenticated.
C14_StartupOutcome ==
    (calls = 0 /\ phase = "mounted" /\ effectSub # 0 /\ Quiescent)
    => \/ ev.op = "load" /\ ev.out = "data" /\ Authenticated
       \/ /\ ev.op = "load" /\ ev.out = "failed"
          /\ authUser # NULL /\ user = JsNull /\ error # NULL /\ isLoading = FALSE
       \/ ev.op = "getSession" /\ ev.out = "none" /\ Unauthenticated

\* C15: when the slot holds a readable profile at startup, the profile is
\* the stored value with isLoading = false, and the startup path makes no
\* provider call: no session lookup, no subscription.
C15_RestoredNoProviderCall ==
    (StartupStep /\ ev.msg # NULL /\ Parse(ev.msg).ok /\ IsProfile(Parse(ev.msg).value))
    => /\ user = Parse(ev.msg).value
       /\ localStorage = ev.msg
       /\ isLoading = FALSE
       /\ authUser = NULL
       /\ getSessionPending = 0
       /\ subs = {}
       /\ effectSub = 0
       /\ nextSub = 1

\* Startup restored the stored coach profile while the provider holds a
\* session.
C15_Witness ==
    /\ StartupStep
    /\ user = demoUsers["coach@demo.com"]
    /\ session # NULL

\* C16: logout clears the slot and calls the provider's sign-out; when
\* sign-out reports a failure its message is recorded in error, and profile
\* and identity are set to null all the same; logout ends without throwing.
C16_LogoutAlwaysResets ==
    /\ ev.op = "logout" => (localStorage = NULL /\ error = NULL /\ logoutPc = "signOut")
    /\ ev.op = "logoutSignOut"
         => /\ ev.out \in {"ok", "error"}
            /\ logoutPc = "idle"
            /\ user = JsNull
            /\ authUser = NULL
            /\ ev.out = "error" => error = ev.msg

\* A logout of a signed-in account whose sign-out failed.
C16_Witness ==
    /\ ev.op = "logoutSignOut"
    /\ ev.out = "error"
    /\ error = "Network request failed"
    /\ session # NULL

\* C17: at most one subscription is live per mounted session manager, the
\* live one is the one the current effect run acquired, and after teardown
\* none is live, also when the effect is run, cleaned up and run again.
C17_ScopedSubscription ==
    /\ Cardinality(subs) <= 1
    /\ subs \subseteq {effectSub}
    /\ phase # "mounted" => subs = {}

\* The effect ran, was cleaned up and ran again, and the component then
\* went away.
C17_Witness == phase = "gone" /\ nextSub = 3 /\ effectSub = 0 /\ subs = {}

\* C18: whenever no operation is in flight, a non-null profile is backed by
\* its source (the slot holds that same profile, or identity is non-null and
\* profile.id is identity's account id), and a slot holding a profile never
\* coexists with profile = null.
C18_ProfileBacked ==
    (phase = "mounted" /\ Quiescent)
    => /\ user # JsNull
            => \/ localStorage = Stringify(user)
               \/ authUser # NULL /\ IsProfile(user) /\ user.id = authUser
       /\ (Truthy(localStorage) /\ Parse(localStorage).ok
             /\ IsProfile(Parse(localStorage).value))
            => user # JsNull

\* C19: after a provider-backed signUp whose create-account, sign-in and
\* create-profile all succeeded, once nothing is in flight the state is
\* Authenticated with the new profile (role "gymnast") and error = null,
\* however the handler's profile load interleaved with create-profile (the
\* step that ended the run is create-profile's answer or a load that the
\* store answered with a row).
C19_SignUpAuthenticated ==
    (/\ phase = "mounted" /\ effectSub # 0
     /\ calls = 1
     /\ Len(suTrace) = 3
     /\ \A i \in 1..3 : suTrace[i].out = "ok"
     /\ Quiescent
     /\ \/ ev.op = "signUpProfile"
        \/ ev.op = "load" /\ ev.out = "data")
    => /\ Authenticated
       /\ user.id = AccountId(NewEmail)
       /\ user.role = "gymnast"
       /\ error = NULL

\* C20: login calls the provider's signIn only with credentials the demo
\* resolver did not match, a demo login starts no signIn, and the step after
\* a signIn call only succeeds or throws: it never sets profile nor writes
\* the slot, so the demo fallback of the signIn error branch never runs.
C20_FallbackUnreachable ==
    [][/\ loginPc'.st = "signIn"
          => ~(/\ loginPc'.password = "demo123"
               /\ loginPc'.email \in {"admin@demo.com", "coach@demo.com", "gymnast@demo.com"})
       /\ (ev'.op = "login" /\ ev'.out = "demo")
          => /\ loginPc'.st = "idle"
             /\ UNCHANGED <<session, events>>
       /\ ev'.op = "loginSignIn"
          => /\ ev'.out \in {"ok", "throw"}
             /\ user' = user
             /\ localStorage' = localStorage]_vars

\* signIn answered 'Email not confirmed' to a login with the demo password
\* and a non-catalog email, and login threw.
C20_Witness ==
    /\ ev.op = "loginSignIn"
    /\ ev.out = "throw"
    /\ ev.msg = "Email not confirmed"
    /\ ev.email = NewEmail

\* The hook's effect has run for the current user and no fetch is pending.
HookSettled ==
    /\ phase = "mounted"
    /\ hook # "none"
    /\ deps = DepOf(hook, user)
    /\ fetching = 0

\* C21: every data hook, which starts with loading = true, reports
\* loading = false once its effect has run and its fetch, if any, has
\* returned; useGymnasts also when the user has no gym_id, useNotifications
\* also when there is no user.
C21_LoadingEnds == HookSettled => loading = FALSE

====
